---------------------------- MODULE Spec2Model ----------------------------
(***************************************************************************)
(* Model of app/core/secrets_manager.py: the bootstrap Settings, the       *)
(* SecretSchema, get_secret_values, and the SecretManager facade whose     *)
(* properties read the cached SECRET_VALUES.                               *)
(*                                                                         *)
(* Python values are tagged records; a Python str is the sequence of its   *)
(* characters, so that lower(), int() and the f-string of DATABASE_URL     *)
(* work on characters as the interpreter does.  Dictionary keys and field  *)
(* names are TLA+ strings: the code only compares them.                    *)
(***************************************************************************)
EXTENDS Integers, Sequences, FiniteSets, TLC

VARIABLES
    environ,        \* names set in the process environment
    dotenv,         \* names set in the .env file
    proc,           \* "importing", "crashed" (import raised) or "serving"
    lockBuild,      \* TRUE: functools.cached_property takes a lock (Python < 3.12)
    store,          \* what the remote store answers to get_secret_value now
    changes,        \* how often the remote store has changed so far
    instance_dict,  \* settings.__dict__, where cached_property keeps its value
    lock,           \* the thread holding cached_property's lock, or NoThread
    pc,             \* per thread: "idle", "lock", "call" or "store"
    prop,           \* per thread: the property being read
    fetched,        \* per thread: what get_secret_values gave, not yet cached
    result,         \* per thread: the last completed property read
    netCalls        \* number of client.get_secret_value calls made

vars == <<environ, dotenv, proc, lockBuild, store, changes, instance_dict,
          lock, pc, prop, fetched, result, netCalls>>

-----------------------------------------------------------------------------
(* Bounds of the model *)

\* number of threads that read the settings object
NThreads == 2

\* number of times the remote store changes its answer
MaxStoreChanges == 1

Threads == 1..NThreads
NoThread == 0

-----------------------------------------------------------------------------
(* Python values and outcomes *)

PyNone == [t |-> "none"]
PyStr(s) == [t |-> "str", v |-> s]
PyBool(b) == [t |-> "bool", v |-> b]
PyInt(n) == [t |-> "int", v |-> n]
PyDict(d) == [t |-> "dict", v |-> d]

Return(v) == [t |-> "return", v |-> v]
Raise(e) == [t |-> "raise", exc |-> e]

\* bool(x): the truth value `or` tests
Truthy(x) ==
    CASE x.t = "none" -> FALSE
      [] x.t = "bool" -> x.v
      [] x.t = "str" -> x.v # <<>>
      [] x.t = "int" -> x.v # 0
      [] x.t = "dict" -> DOMAIN x.v # {}

\* a or b: b whenever a is falsy, the empty string included
\* (variant: b only when a is None)
PyOr_NoneOnly(a, b) == IF a.t # "none" THEN a ELSE b
PyOr(a, b) == IF Truthy(a) THEN a ELSE b

Digit == <<"0", "1", "2", "3", "4", "5", "6", "7", "8", "9">>
DigitChars == {Digit[i] : i \in 1..10}
DigitVal(c) == CHOOSE d \in 0..9 : Digit[d + 1] = c

RECURSIVE DigitsOf(_)
DigitsOf(n) == IF n < 10 THEN <<Digit[n + 1]>>
               ELSE DigitsOf(n \div 10) \o <<Digit[(n % 10) + 1]>>

\* str(x), as a character sequence
str(x) ==
    CASE x.t = "str" -> x.v
      [] x.t = "bool" -> IF x.v THEN <<"T", "r", "u", "e">>
                                ELSE <<"F", "a", "l", "s", "e">>
      [] x.t = "none" -> <<"N", "o", "n", "e">>
      [] x.t = "int" -> IF x.v < 0 THEN <<"-">> \o DigitsOf(-x.v)
                                   ELSE DigitsOf(x.v)

Upper == <<"A", "B", "C", "D", "E", "F", "G", "H", "I", "J", "K", "L", "M",
           "N", "O", "P", "Q", "R", "S", "T", "U", "V", "W", "X", "Y", "Z">>
Lowercase == <<"a", "b", "c", "d", "e", "f", "g", "h", "i", "j", "k", "l", "m",
               "n", "o", "p", "q", "r", "s", "t", "u", "v", "w", "x", "y", "z">>
LowerChar(c) ==
    IF \E i \in 1..26 : Upper[i] = c
    THEN Lowercase[CHOOSE i \in 1..26 : Upper[i] = c]
    ELSE c

\* s.lower()
lower(s) == [i \in 1..Len(s) |-> LowerChar(s[i])]

Whitespace == {" ", "\t", "\n", "\r"}

RECURSIVE LStrip(_)
LStrip(s) == IF s # <<>> /\ Head(s) \in Whitespace THEN LStrip(Tail(s)) ELSE s

RECURSIVE RStrip(_)
RStrip(s) == IF s # <<>> /\ s[Len(s)] \in Whitespace
             THEN RStrip(SubSeq(s, 1, Len(s) - 1)) ELSE s

RECURSIVE DecimalValue(_)
DecimalValue(ds) ==
    IF ds = <<>> THEN 0
    ELSE IF ds[Len(ds)] = "_" THEN DecimalValue(SubSeq(ds, 1, Len(ds) - 1))
    ELSE 10 * DecimalValue(SubSeq(ds, 1, Len(ds) - 1)) + DigitVal(ds[Len(ds)])

\* int(s) of a str: surrounding whitespace, one sign, decimal digits with
\* single underscores between them; anything else raises ValueError
\* (variant: a string that is no plain decimal gives the default port)
int_DefaultOnError(s) ==
    IF s # <<>> /\ \A i \in 1..Len(s) : s[i] \in DigitChars
    THEN Return(PyInt(DecimalValue(s)))
    ELSE Return(PyInt(587))
int(s) ==
    LET b == RStrip(LStrip(s))
        signed == b # <<>> /\ Head(b) \in {"+", "-"}
        ds == IF signed THEN Tail(b) ELSE b
        wellFormed ==
            /\ ds # <<>>
            /\ \A i \in 1..Len(ds) : ds[i] \in DigitChars \cup {"_"}
            /\ ds[1] # "_" /\ ds[Len(ds)] # "_"
            /\ \A i \in 1..(Len(ds) - 1) : ~(ds[i] = "_" /\ ds[i + 1] = "_")
    IN IF ~wellFormed THEN Raise("ValueError")
       ELSE IF signed /\ Head(b) = "-" THEN Return(PyInt(-DecimalValue(ds)))
       ELSE Return(PyInt(DecimalValue(ds)))

-----------------------------------------------------------------------------
(* Settings: the bootstrap credentials *)

RequiredCredentials == {"AWS_ACCESS_KEY_ID", "AWS_SECRET_ACCESS_KEY"}

\* Settings(): each field is taken from the environment or, failing that, from
\* the env_file; a field found in neither fails validation.  (An env_file
\* holding other names is not modelled: it can only add failures.)
\* (variant: AWS_SECRET_ACCESS_KEY is not required)
Settings_OnlyAccessKey(env, file) ==
    IF "AWS_ACCESS_KEY_ID" \in env \cup file
    THEN Return(RequiredCredentials) ELSE Raise("ValidationError")
Settings(env, file) ==
    IF RequiredCredentials \subseteq env \cup file
    THEN Return(RequiredCredentials) ELSE Raise("ValidationError")

-----------------------------------------------------------------------------
(* SecretSchema *)

StrFields ==
    { "POSTGRES_USER", "POSTGRES_PASSWORD", "POSTGRES_SERVER",
      "POSTGRES_PORT", "POSTGRES_DB", "SECRET_KEY", "PYTHON_ENVIRONMENT",
      "SMTP_HOST", "SMTP_PORT", "SMTP_USER", "SMTP_PASSWORD", "SENDER_EMAIL",
      "SMTP_FROM_NAME", "VERIFF_API_KEY", "VERIFF_API_SHARED_SECRET_KEY",
      "VERIFF_BASE_URL", "VERIFF_CALLBACK_URL", "GOOGLE_CLIENT_ID",
      "SENDGRID_API_KEY", "SEND_GRID_EMAIL", "SEND_GRID_NAME",
      "WELCOME_EN_EMAIL_TEMPLATE_ID", "WELCOME_FR_EMAIL_TEMPLATE_ID",
      "SUBMIT_SELL_YOUR_BUSINESS_EMAIL_TEMPLATE_ID",
      "CRITERIA_SAVED_AS_BUYER_EMAIL_TEMPLATE_ID",
      "MESSAGE_RECEIVED_FROM_CONTACT_EMAIL_TEMPLATE_ID",
      "BUSINESS_PUBLISHED_EMAIL_TEMPLATE_ID",
      "BUSINESS_EDITED_EMAIL_TEMPLATE_ID",
      "BUSINESS_ARCHIVED_EMAIL_TEMPLATE_ID",
      "REQUEST_MORE_DETAILS_SELLER_EMAIL_TEMPLATE_ID",
      "ACCESS_GRANTED_TO_BUYER_EMAIL_TEMPLATE_ID", "SKRIBBLE_API_KEY",
      "SKRIBBLE_USERNAME", "SKRIBBLE_URL", "BACKEND_URL",
      "FRONTEND_BASE_URL", "ADMIN_EMAIL", "ALLOW_ORIGINS", "DOMAIN",
      "AWS_REGION", "S3_BUCKET_NAME", "S3_BUCKET_ARN" }

BoolFields == { "FRONTEND_IS_HTTPS", "BACKEND_IS_HTTPS" }

Fields == StrFields \cup BoolFields

\* the strings pydantic's lax bool validation accepts, by the value they give
BoolTrueStrings == { <<"1">>, <<"t", "r", "u", "e">>, <<"t">>, <<"o", "n">>,
                     <<"y">>, <<"y", "e", "s">> }
BoolFalseStrings == { <<"0">>, <<"f", "a", "l", "s", "e">>, <<"f">>,
                      <<"o", "f", "f">>, <<"n">>, <<"n", "o">> }

\* whether the input is acceptable for a field: a str field takes a str only,
\* a bool field a bool, 0, 1 or one of the strings above; None is the default
\* of every field but not an acceptable input, the annotations being plain
\* str and bool
ValidInput(f, x) ==
    IF f \in StrFields THEN x.t = "str"
    ELSE \/ x.t = "bool"
         \/ x.t = "int" /\ x.v \in {0, 1}
         \/ x.t = "str" /\ lower(x.v) \in BoolTrueStrings \cup BoolFalseStrings

\* the value a valid input is stored as
Coerce(f, x) ==
    IF f \in StrFields \/ x.t = "bool" THEN x
    ELSE IF x.t = "int" THEN PyBool(x.v = 1)
    ELSE PyBool(lower(x.v) \in BoolTrueStrings)

\* SecretSchema(**data): keys that are no field are ignored (extra = ignore),
\* fields not given keep the default None, one invalid input fails the whole
\* construction with a ValidationError
\* (variant: extra = forbid, a key that is no field fails too)
SecretSchema_ForbidExtra(data) ==
    IF \/ \E f \in Fields \cap DOMAIN data : ~ValidInput(f, data[f])
       \/ DOMAIN data \ Fields # {}
    THEN Raise("ValidationError")
    ELSE Return([f \in Fields |->
                    IF f \in DOMAIN data THEN Coerce(f, data[f]) ELSE PyNone])
SecretSchema(data) ==
    IF \E f \in Fields \cap DOMAIN data : ~ValidInput(f, data[f])
    THEN Raise("ValidationError")
    ELSE Return([f \in Fields |->
                    IF f \in DOMAIN data THEN Coerce(f, data[f]) ELSE PyNone])

\* SecretSchema(): every field unset
EmptySchema == [f \in Fields |-> PyNone]

-----------------------------------------------------------------------------
(* get_secret_values *)

\* A SecretString is represented by what parsing it gives: [valid |-> TRUE,
\* value |-> the parsed document] or [valid |-> FALSE, text |-> the text].
JsonText(value) == [valid |-> TRUE, value |-> value]
PlainText(text) == [valid |-> FALSE, text |-> text]

\* json.loads(secret_string)
json_loads(secret_string) ==
    IF secret_string.valid THEN Return(secret_string.value)
    ELSE Raise("JSONDecodeError")

\* what client.get_secret_value can do
Response(secret_string) == [kind |-> "ok", SecretString |-> secret_string]
BinaryResponse == [kind |-> "binary"]
ClientError(code) == [kind |-> "ClientError", code |-> code]
OtherError(exc) == [kind |-> "error", exc |-> exc]

boolean_fields == <<"FRONTEND_IS_HTTPS", "BACKEND_IS_HTTPS">>

TrueWords == { <<"t", "r", "u", "e">>, <<"1">>, <<"y", "e", "s">>, <<"o", "n">> }

\* the for loop over boolean_fields
NormalizeBooleans(secret_data) ==
    [k \in DOMAIN secret_data |->
        IF (\E i \in 1..Len(boolean_fields) : boolean_fields[i] = k)
           /\ secret_data[k].t = "str"
        THEN PyBool(lower(secret_data[k].v) \in TrueWords)
        ELSE secret_data[k]]

\* the body of the outer try: the call, then the parse
TryBody(secret_name, response) ==
    CASE response.kind = "ClientError" -> Raise("ClientError")
      [] response.kind = "error" -> Raise(response.exc)
      [] response.kind = "binary" -> Raise("KeyError")
      [] response.kind = "ok" ->
            LET secret_string == response.SecretString
                secret_data == json_loads(secret_string)
            IN IF secret_data.t = "raise"
               THEN SecretSchema(secret_name :> PyStr(secret_string.text))
               ELSE IF secret_data.v.t = "dict"
               THEN SecretSchema(NormalizeBooleans(secret_data.v.v))
               ELSE SecretSchema(secret_name :> PyStr(str(secret_data.v)))

\* get_secret_values(secret_name, region), given the answer of the store for
\* that name and region: except ClientError (botocore gives it an Error.Code,
\* so the handler itself does not raise), then except Exception
\* (variant: without the except Exception clause)
get_secret_values_OnlyClientError(secret_name, response) ==
    LET r == TryBody(secret_name, response)
    IN IF r.t = "raise" /\ r.exc = "ClientError" THEN Return(EmptySchema)
       ELSE r
get_secret_values(secret_name, response) ==
    LET r == TryBody(secret_name, response)
    IN IF r.t = "raise" /\ r.exc = "ClientError" THEN Return(EmptySchema)
       ELSE IF r.t = "raise" THEN Return(EmptySchema)
       ELSE r

-----------------------------------------------------------------------------
(* SecretManager: the properties *)

SECRET_NAME == "lumaya-backend-env"

\* lines 135-137
FRONTEND_IS_HTTPS(sv) ==
    Return(PyBool(lower(str(PyOr(sv.FRONTEND_IS_HTTPS,
                                 PyStr(<<"f", "a", "l", "s", "e">>))))
                  = <<"t", "r", "u", "e">>))

\* lines 139-141
BACKEND_IS_HTTPS(sv) ==
    Return(PyBool(lower(str(PyOr(sv.BACKEND_IS_HTTPS,
                                 PyStr(<<"f", "a", "l", "s", "e">>))))
                  = <<"t", "r", "u", "e">>))

\* lines 207-210
SMTP_PORT(sv) ==
    LET port_str == PyOr(sv.SMTP_PORT, PyStr(<<"5", "8", "7">>))
    IN int(port_str.v)

\* lines 143-145: self.SECRET_VALUES.ALLOW_ORIGINS or ""
ALLOW_ORIGINS(sv) ==
    Return(PyOr(sv.ALLOW_ORIGINS, PyStr(<<>>)))

\* lines 147-149: self.SECRET_VALUES.DOMAIN or "" (DOMAIN is a TLA+ keyword)
DOMAIN_(sv) ==
    Return(PyOr(sv["DOMAIN"], PyStr(<<>>)))

\* lines 151-153: self.SECRET_VALUES.PYTHON_ENVIRONMENT or "development"
ENVIRONMENT(sv) ==
    Return(PyOr(sv.PYTHON_ENVIRONMENT, PyStr(<<"d", "e", "v", "e", "l", "o",
            "p", "m", "e", "n", "t">>)))

\* lines 169-171: self.SECRET_VALUES.POSTGRES_USER or ""
POSTGRES_USER(sv) ==
    Return(PyOr(sv.POSTGRES_USER, PyStr(<<>>)))

\* lines 173-175: self.SECRET_VALUES.POSTGRES_PASSWORD or ""
POSTGRES_PASSWORD(sv) ==
    Return(PyOr(sv.POSTGRES_PASSWORD, PyStr(<<>>)))

\* lines 177-179: self.SECRET_VALUES.POSTGRES_SERVER or "localhost"
POSTGRES_SERVER(sv) ==
    Return(PyOr(sv.POSTGRES_SERVER, PyStr(<<"l", "o", "c", "a", "l", "h",
            "o", "s", "t">>)))

\* lines 181-183: self.SECRET_VALUES.POSTGRES_PORT or "5432"
POSTGRES_PORT(sv) ==
    Return(PyOr(sv.POSTGRES_PORT, PyStr(<<"5", "4", "3", "2">>)))

\* lines 185-187: self.SECRET_VALUES.POSTGRES_DB or ""
POSTGRES_DB(sv) ==
    Return(PyOr(sv.POSTGRES_DB, PyStr(<<>>)))

\* lines 194-196: self.SECRET_VALUES.SECRET_KEY or ""
SECRET_KEY(sv) ==
    Return(PyOr(sv.SECRET_KEY, PyStr(<<>>)))

\* lines 203-205: self.SECRET_VALUES.SMTP_HOST or ""
SMTP_HOST(sv) ==
    Return(PyOr(sv.SMTP_HOST, PyStr(<<>>)))

\* lines 212-214: self.SECRET_VALUES.SMTP_USER or ""
SMTP_USER(sv) ==
    Return(PyOr(sv.SMTP_USER, PyStr(<<>>)))

\* lines 216-218: self.SECRET_VALUES.SMTP_PASSWORD or ""
SMTP_PASSWORD(sv) ==
    Return(PyOr(sv.SMTP_PASSWORD, PyStr(<<>>)))

\* lines 220-222: self.SECRET_VALUES.SENDER_EMAIL or ""
SMTP_SENDER_EMAIL(sv) ==
    Return(PyOr(sv.SENDER_EMAIL, PyStr(<<>>)))

\* lines 224-226: self.SECRET_VALUES.SMTP_FROM_NAME or ""
SMTP_FROM_NAME(sv) ==
    Return(PyOr(sv.SMTP_FROM_NAME, PyStr(<<>>)))

\* lines 228-230: self.SECRET_VALUES.AWS_REGION or ""
AWS_REGION(sv) ==
    Return(PyOr(sv.AWS_REGION, PyStr(<<>>)))

\* lines 232-234: self.SECRET_VALUES.S3_BUCKET_NAME or "lumaya-bucket"
S3_BUCKET_NAME(sv) ==
    Return(PyOr(sv.S3_BUCKET_NAME, PyStr(<<"l", "u", "m", "a", "y", "a", "-",
            "b", "u", "c", "k", "e", "t">>)))

\* lines 236-238: self.SECRET_VALUES.S3_BUCKET_ARN or "arn:aws:s3:::lumaya-bucket-dev"
S3_BUCKET_ARN(sv) ==
    Return(PyOr(sv.S3_BUCKET_ARN, PyStr(<<"a", "r", "n", ":", "a", "w", "s",
            ":", "s", "3", ":", ":", ":", "l", "u", "m", "a", "y", "a", "-",
            "b", "u", "c", "k", "e", "t", "-", "d", "e", "v">>)))

\* lines 241-243: self.SECRET_VALUES.VERIFF_API_KEY or ""
VERIFF_API_KEY(sv) ==
    Return(PyOr(sv.VERIFF_API_KEY, PyStr(<<>>)))

\* lines 245-247: self.SECRET_VALUES.VERIFF_API_SHARED_SECRET_KEY or ""
VERIFF_API_SHARED_SECRET_KEY(sv) ==
    Return(PyOr(sv.VERIFF_API_SHARED_SECRET_KEY, PyStr(<<>>)))

\* lines 249-251: self.SECRET_VALUES.VERIFF_BASE_URL or ""
VERIFF_BASE_URL(sv) ==
    Return(PyOr(sv.VERIFF_BASE_URL, PyStr(<<>>)))

\* lines 253-255: self.SECRET_VALUES.VERIFF_CALLBACK_URL or "https://lumaya-web.hashlogics.com/en"
VERIFF_CALLBACK_URL(sv) ==
    Return(PyOr(sv.VERIFF_CALLBACK_URL, PyStr(<<"h", "t", "t", "p", "s", ":",
            "/", "/", "l", "u", "m", "a", "y", "a", "-", "w", "e", "b", ".",
            "h", "a", "s", "h", "l", "o", "g", "i", "c", "s", ".", "c", "o",
            "m", "/", "e", "n">>)))

\* lines 258-260: self.SECRET_VALUES.GOOGLE_CLIENT_ID or "client id"
GOOGLE_CLIENT_ID(sv) ==
    Return(PyOr(sv.GOOGLE_CLIENT_ID, PyStr(<<"c", "l", "i", "e", "n", "t",
            " ", "i", "d">>)))

\* lines 263-265: self.SECRET_VALUES.SENDGRID_API_KEY or ""
SEND_GRID_KEY(sv) ==
    Return(PyOr(sv.SENDGRID_API_KEY, PyStr(<<>>)))

\* lines 267-269: self.SECRET_VALUES.SEND_GRID_EMAIL or ""
SEND_GRID_EMAIL(sv) ==
    Return(PyOr(sv.SEND_GRID_EMAIL, PyStr(<<>>)))

\* lines 271-273: self.SECRET_VALUES.SEND_GRID_NAME or ""
SEND_GRID_NAME(sv) ==
    Return(PyOr(sv.SEND_GRID_NAME, PyStr(<<>>)))

\* lines 276-278: self.SECRET_VALUES.WELCOME_EN_EMAIL_TEMPLATE_ID or ""
WELCOME_EN_TEMPLATE_ID(sv) ==
    Return(PyOr(sv.WELCOME_EN_EMAIL_TEMPLATE_ID, PyStr(<<>>)))

\* lines 280-282: self.SECRET_VALUES.WELCOME_FR_EMAIL_TEMPLATE_ID or ""
WELCOME_FR_EMAIL_TEMPLATE_ID(sv) ==
    Return(PyOr(sv.WELCOME_FR_EMAIL_TEMPLATE_ID, PyStr(<<>>)))

\* lines 284-286: self.SECRET_VALUES.SUBMIT_SELL_YOUR_BUSINESS_EMAIL_TEMPLATE_ID or ""
SUBMIT_SELL_YOUR_BUSINESS_EMAIL_TEMPLATE_ID(sv) ==
    Return(PyOr(sv.SUBMIT_SELL_YOUR_BUSINESS_EMAIL_TEMPLATE_ID, PyStr(<<>>)))

\* lines 288-290: self.SECRET_VALUES.CRITERIA_SAVED_AS_BUYER_EMAIL_TEMPLATE_ID or ""
CRITERIA_SAVED_AS_BUYER_EMAIL_TEMPLATE_ID(sv) ==
    Return(PyOr(sv.CRITERIA_SAVED_AS_BUYER_EMAIL_TEMPLATE_ID, PyStr(<<>>)))

\* lines 292-294: self.SECRET_VALUES.MESSAGE_RECEIVED_FROM_CONTACT_EMAIL_TEMPLATE_ID or ""
MESSAGE_RECEIVED_FROM_CONTACT_EMAIL_TEMPLATE_ID(sv) ==
    Return(PyOr(sv.MESSAGE_RECEIVED_FROM_CONTACT_EMAIL_TEMPLATE_ID,
            PyStr(<<>>)))

\* lines 296-298: self.SECRET_VALUES.BUSINESS_PUBLISHED_EMAIL_TEMPLATE_ID or ""
BUSINESS_PUBLISHED_EMAIL_TEMPLATE_ID(sv) ==
    Return(PyOr(sv.BUSINESS_PUBLISHED_EMAIL_TEMPLATE_ID, PyStr(<<>>)))

\* lines 300-302: self.SECRET_VALUES.BUSINESS_EDITED_EMAIL_TEMPLATE_ID or ""
BUSINESS_EDITED_EMAIL_TEMPLATE_ID(sv) ==
    Return(PyOr(sv.BUSINESS_EDITED_EMAIL_TEMPLATE_ID, PyStr(<<>>)))

\* lines 304-306: self.SECRET_VALUES.BUSINESS_ARCHIVED_EMAIL_TEMPLATE_ID or ""
BUSINESS_ARCHIVED_EMAIL_TEMPLATE_ID(sv) ==
    Return(PyOr(sv.BUSINESS_ARCHIVED_EMAIL_TEMPLATE_ID, PyStr(<<>>)))

\* lines 308-310: self.SECRET_VALUES.REQUEST_MORE_DETAILS_SELLER_EMAIL_TEMPLATE_ID or ""
REQUEST_MORE_DETAILS_SELLER_EMAIL_TEMPLATE_ID(sv) ==
    Return(PyOr(sv.REQUEST_MORE_DETAILS_SELLER_EMAIL_TEMPLATE_ID, PyStr(<<>>)))

\* lines 312-314: self.SECRET_VALUES.ACCESS_GRANTED_TO_BUYER_EMAIL_TEMPLATE_ID or ""
ACCESS_GRANTED_TO_BUYER_EMAIL_TEMPLATE_ID(sv) ==
    Return(PyOr(sv.ACCESS_GRANTED_TO_BUYER_EMAIL_TEMPLATE_ID, PyStr(<<>>)))

\* lines 317-319: self.SECRET_VALUES.SKRIBBLE_API_KEY or ""
SKRIBBLE_API_KEY(sv) ==
    Return(PyOr(sv.SKRIBBLE_API_KEY, PyStr(<<>>)))

\* lines 321-323: self.SECRET_VALUES.SKRIBBLE_USERNAME or ""
SKRIBBLE_USERNAME(sv) ==
    Return(PyOr(sv.SKRIBBLE_USERNAME, PyStr(<<>>)))

\* lines 325-327: self.SECRET_VALUES.SKRIBBLE_URL or "https://api.skribble.com/v2"
SKRIBBLE_URL(sv) ==
    Return(PyOr(sv.SKRIBBLE_URL, PyStr(<<"h", "t", "t", "p", "s", ":", "/",
            "/", "a", "p", "i", ".", "s", "k", "r", "i", "b", "b", "l", "e",
            ".", "c", "o", "m", "/", "v", "2">>)))

\* lines 329-331: self.SECRET_VALUES.BACKEND_URL or ""
BACKEND_URL(sv) ==
    Return(PyOr(sv.BACKEND_URL, PyStr(<<>>)))

\* lines 333-335: self.SECRET_VALUES.ADMIN_EMAIL or "isabelle@lumaya.ch"
ADMIN_EMAIL(sv) ==
    Return(PyOr(sv.ADMIN_EMAIL, PyStr(<<"i", "s", "a", "b", "e", "l", "l",
            "e", "@", "l", "u", "m", "a", "y", "a", ".", "c", "h">>)))

\* lines 338-340: self.SECRET_VALUES.FRONTEND_BASE_URL or ""
FRONTEND_BASE_URL(sv) ==
    Return(PyOr(sv.FRONTEND_BASE_URL, PyStr(<<>>)))

\* lines 189-191: the f-string over five properties of the same object
\* (variant: formats the schema fields, not the resolved properties)
DATABASE_URL_RawFields(sv) ==
    Return(PyStr(<<"p", "o", "s", "t", "g", "r", "e", "s", "q", "l", ":", "/", "/">>
                 \o str(sv.POSTGRES_USER) \o <<":">> \o str(sv.POSTGRES_PASSWORD)
                 \o <<"@">> \o str(sv.POSTGRES_SERVER) \o <<":">>
                 \o str(sv.POSTGRES_PORT) \o <<"/">> \o str(sv.POSTGRES_DB)))
DATABASE_URL(sv) ==
    Return(PyStr(<<"p", "o", "s", "t", "g", "r", "e", "s", "q", "l", ":", "/", "/">>
                 \o str(POSTGRES_USER(sv).v) \o <<":">>
                 \o str(POSTGRES_PASSWORD(sv).v) \o <<"@">>
                 \o str(POSTGRES_SERVER(sv).v) \o <<":">>
                 \o str(POSTGRES_PORT(sv).v) \o <<"/">>
                 \o str(POSTGRES_DB(sv).v)))

Properties ==
    { "FRONTEND_IS_HTTPS", "BACKEND_IS_HTTPS", "ALLOW_ORIGINS", "DOMAIN",
      "ENVIRONMENT", "POSTGRES_USER", "POSTGRES_PASSWORD", "POSTGRES_SERVER",
      "POSTGRES_PORT", "POSTGRES_DB", "DATABASE_URL", "SECRET_KEY",
      "SMTP_HOST", "SMTP_PORT", "SMTP_USER", "SMTP_PASSWORD",
      "SMTP_SENDER_EMAIL", "SMTP_FROM_NAME", "AWS_REGION", "S3_BUCKET_NAME",
      "S3_BUCKET_ARN", "VERIFF_API_KEY", "VERIFF_API_SHARED_SECRET_KEY",
      "VERIFF_BASE_URL", "VERIFF_CALLBACK_URL", "GOOGLE_CLIENT_ID",
      "SEND_GRID_KEY", "SEND_GRID_EMAIL", "SEND_GRID_NAME",
      "WELCOME_EN_TEMPLATE_ID", "WELCOME_FR_EMAIL_TEMPLATE_ID",
      "SUBMIT_SELL_YOUR_BUSINESS_EMAIL_TEMPLATE_ID",
      "CRITERIA_SAVED_AS_BUYER_EMAIL_TEMPLATE_ID",
      "MESSAGE_RECEIVED_FROM_CONTACT_EMAIL_TEMPLATE_ID",
      "BUSINESS_PUBLISHED_EMAIL_TEMPLATE_ID",
      "BUSINESS_EDITED_EMAIL_TEMPLATE_ID",
      "BUSINESS_ARCHIVED_EMAIL_TEMPLATE_ID",
      "REQUEST_MORE_DETAILS_SELLER_EMAIL_TEMPLATE_ID",
      "ACCESS_GRANTED_TO_BUYER_EMAIL_TEMPLATE_ID", "SKRIBBLE_API_KEY",
      "SKRIBBLE_USERNAME", "SKRIBBLE_URL", "BACKEND_URL", "ADMIN_EMAIL",
      "FRONTEND_BASE_URL" }

ReadProperty(p, sv) ==
    CASE p = "FRONTEND_IS_HTTPS" -> FRONTEND_IS_HTTPS(sv)
      [] p = "BACKEND_IS_HTTPS" -> BACKEND_IS_HTTPS(sv)
      [] p = "ALLOW_ORIGINS" -> ALLOW_ORIGINS(sv)
      [] p = "DOMAIN" -> DOMAIN_(sv)
      [] p = "ENVIRONMENT" -> ENVIRONMENT(sv)
      [] p = "POSTGRES_USER" -> POSTGRES_USER(sv)
      [] p = "POSTGRES_PASSWORD" -> POSTGRES_PASSWORD(sv)
      [] p = "POSTGRES_SERVER" -> POSTGRES_SERVER(sv)
      [] p = "POSTGRES_PORT" -> POSTGRES_PORT(sv)
      [] p = "POSTGRES_DB" -> POSTGRES_DB(sv)
      [] p = "DATABASE_URL" -> DATABASE_URL(sv)
      [] p = "SECRET_KEY" -> SECRET_KEY(sv)
      [] p = "SMTP_HOST" -> SMTP_HOST(sv)
      [] p = "SMTP_PORT" -> SMTP_PORT(sv)
      [] p = "SMTP_USER" -> SMTP_USER(sv)
      [] p = "SMTP_PASSWORD" -> SMTP_PASSWORD(sv)
      [] p = "SMTP_SENDER_EMAIL" -> SMTP_SENDER_EMAIL(sv)
      [] p = "SMTP_FROM_NAME" -> SMTP_FROM_NAME(sv)
      [] p = "AWS_REGION" -> AWS_REGION(sv)
      [] p = "S3_BUCKET_NAME" -> S3_BUCKET_NAME(sv)
      [] p = "S3_BUCKET_ARN" -> S3_BUCKET_ARN(sv)
      [] p = "VERIFF_API_KEY" -> VERIFF_API_KEY(sv)
      [] p = "VERIFF_API_SHARED_SECRET_KEY" -> VERIFF_API_SHARED_SECRET_KEY(sv)
      [] p = "VERIFF_BASE_URL" -> VERIFF_BASE_URL(sv)
      [] p = "VERIFF_CALLBACK_URL" -> VERIFF_CALLBACK_URL(sv)
      [] p = "GOOGLE_CLIENT_ID" -> GOOGLE_CLIENT_ID(sv)
      [] p = "SEND_GRID_KEY" -> SEND_GRID_KEY(sv)
      [] p = "SEND_GRID_EMAIL" -> SEND_GRID_EMAIL(sv)
      [] p = "SEND_GRID_NAME" -> SEND_GRID_NAME(sv)
      [] p = "WELCOME_EN_TEMPLATE_ID" -> WELCOME_EN_TEMPLATE_ID(sv)
      [] p = "WELCOME_FR_EMAIL_TEMPLATE_ID" -> WELCOME_FR_EMAIL_TEMPLATE_ID(sv)
      [] p = "SUBMIT_SELL_YOUR_BUSINESS_EMAIL_TEMPLATE_ID" -> SUBMIT_SELL_YOUR_BUSINESS_EMAIL_TEMPLATE_ID(sv)
      [] p = "CRITERIA_SAVED_AS_BUYER_EMAIL_TEMPLATE_ID" -> CRITERIA_SAVED_AS_BUYER_EMAIL_TEMPLATE_ID(sv)
      [] p = "MESSAGE_RECEIVED_FROM_CONTACT_EMAIL_TEMPLATE_ID" -> MESSAGE_RECEIVED_FROM_CONTACT_EMAIL_TEMPLATE_ID(sv)
      [] p = "BUSINESS_PUBLISHED_EMAIL_TEMPLATE_ID" -> BUSINESS_PUBLISHED_EMAIL_TEMPLATE_ID(sv)
      [] p = "BUSINESS_EDITED_EMAIL_TEMPLATE_ID" -> BUSINESS_EDITED_EMAIL_TEMPLATE_ID(sv)
      [] p = "BUSINESS_ARCHIVED_EMAIL_TEMPLATE_ID" -> BUSINESS_ARCHIVED_EMAIL_TEMPLATE_ID(sv)
      [] p = "REQUEST_MORE_DETAILS_SELLER_EMAIL_TEMPLATE_ID" -> REQUEST_MORE_DETAILS_SELLER_EMAIL_TEMPLATE_ID(sv)
      [] p = "ACCESS_GRANTED_TO_BUYER_EMAIL_TEMPLATE_ID" -> ACCESS_GRANTED_TO_BUYER_EMAIL_TEMPLATE_ID(sv)
      [] p = "SKRIBBLE_API_KEY" -> SKRIBBLE_API_KEY(sv)
      [] p = "SKRIBBLE_USERNAME" -> SKRIBBLE_USERNAME(sv)
      [] p = "SKRIBBLE_URL" -> SKRIBBLE_URL(sv)
      [] p = "BACKEND_URL" -> BACKEND_URL(sv)
      [] p = "ADMIN_EMAIL" -> ADMIN_EMAIL(sv)
      [] p = "FRONTEND_BASE_URL" -> FRONTEND_BASE_URL(sv)

-----------------------------------------------------------------------------
(* Inputs *)

\* values a JSON object may give a key: strings, and values of other types
JsonValues ==
    { PyStr(<<>>), PyStr(<<"u">>), PyStr(<<"t", "r", "u", "e">>),
      PyBool(TRUE), PyNone, PyInt(25) }

\* strings tried on SMTP_PORT
PortStrings ==
    { <<"2", "5">>, <<"5", "8", "7">>, <<"0">>, <<"2", "x">>, <<"a", "b", "c">>,
      <<"5", ".", "5">>, <<" ">>, <<" ", "8", "0">>, <<"+", "8", "0">>,
      <<"1", "_", "0">>, <<"_", "1">> }

\* values tried on the two HTTPS flags together
FlagValues ==
    {PyStr(s) : s \in { <<>>, <<"t", "r", "u", "e">>, <<"T", "r", "u", "e">>,
                        <<"Y", "E", "S">>, <<"1">>, <<"O", "n">>,
                        <<"f", "a", "l", "s", "e">>,
                        <<"g", "a", "r", "b", "a", "g", "e">> }}
    \cup {PyBool(TRUE), PyBool(FALSE), PyNone}

\* the payload of the connection-string example
PostgresExample ==
    [k \in {"POSTGRES_USER", "POSTGRES_PASSWORD", "POSTGRES_SERVER",
            "POSTGRES_PORT", "POSTGRES_DB"} |->
        CASE k = "POSTGRES_USER" -> PyStr(<<"u">>)
          [] k = "POSTGRES_PASSWORD" -> PyStr(<<"p">>)
          [] k = "POSTGRES_SERVER" -> PyStr(<<"h">>)
          [] k = "POSTGRES_PORT" -> PyStr(<<"5", "4", "3", "2">>)
          [] k = "POSTGRES_DB" -> PyStr(<<"d">>)]

EmptyDict == [k \in {} |-> PyNone]

BaseDicts == {EmptyDict, PostgresExample}

Keys == Fields \cup {"UNKNOWN_KEY", SECRET_NAME}

\* d with key k set to x
With(d, k, x) == [j \in DOMAIN d \cup {k} |-> IF j = k THEN x ELSE d[j]]

\* JSON objects: a base with one key set, or with the two flags set
JsonObjects ==
    BaseDicts
    \cup {With(d, k, x) : d \in BaseDicts, k \in Keys, x \in JsonValues}
    \cup {With(d, "SMTP_PORT", PyStr(s)) : d \in BaseDicts, s \in PortStrings}
    \cup {With(With(d, "FRONTEND_IS_HTTPS", x), "BACKEND_IS_HTTPS", y) :
             d \in BaseDicts, x \in FlagValues, y \in FlagValues}

JsonScalars == {PyStr(<<"h", "i">>), PyInt(42), PyBool(TRUE), PyNone}

PlainTexts == { <<"h", "e", "l", "l", "o">>, <<"t", "r", "u", "e", "!">> }

Failures ==
    {ClientError(c) : c \in {"ResourceNotFoundException", "AccessDeniedException",
                             "UnrecognizedClientException"}}
    \cup {OtherError(e) : e \in {"EndpointConnectionError", "ReadTimeoutError"}}
    \cup {BinaryResponse}

\* every answer of the store the sequential specification tries
AllResponses ==
    {Response(JsonText(PyDict(d))) : d \in JsonObjects}
    \cup {Response(JsonText(x)) : x \in JsonScalars}
    \cup {Response(PlainText(s)) : s \in PlainTexts}
    \cup Failures

\* the answers the concurrent specification lets the store change between
FewResponses ==
    { Response(JsonText(PyDict(PostgresExample))),
      Response(JsonText(PyDict(With(EmptyDict, "FRONTEND_IS_HTTPS",
                                    PyStr(<<"t", "r", "u", "e">>))))),
      ClientError("ResourceNotFoundException") }

\* the properties the concurrent specification reads
FewProperties == {"POSTGRES_USER", "FRONTEND_IS_HTTPS"}

-----------------------------------------------------------------------------
(* State machine *)

NoResult == [t |-> "none"]

InitWith(responses, environs, dotenvs) ==
    /\ environ \in environs
    /\ dotenv \in dotenvs
    /\ proc = "importing"
    /\ lockBuild \in BOOLEAN
    /\ store \in responses
    /\ changes = 0
    /\ instance_dict = [a \in {} |-> EmptySchema]
    /\ lock = NoThread
    /\ pc = [t \in Threads |-> "idle"]
    /\ prop = [t \in Threads |-> ""]
    /\ fetched = [t \in Threads |-> NoResult]
    /\ result = [t \in Threads |-> NoResult]
    /\ netCalls = 0

\* importing the module: base_settings = Settings() (line 20), then the class
\* definitions, then settings = SecretManager() (line 350)
ImportModule ==
    /\ proc = "importing"
    /\ proc' = IF Settings(environ, dotenv).t = "raise" THEN "crashed" ELSE "serving"
    /\ UNCHANGED <<environ, dotenv, lockBuild, store, changes, instance_dict,
                   lock, pc, prop, fetched, result, netCalls>>

\* a thread reads settings.<p>: the property evaluates self.SECRET_VALUES,
\* cached_property.__get__ looks in the instance's __dict__ and on a hit the
\* property computes its value from what it found
BeginRead(t, p) ==
    /\ proc = "serving"
    /\ pc[t] = "idle"
    /\ IF "SECRET_VALUES" \in DOMAIN instance_dict
       THEN /\ result' = [result EXCEPT ![t] =
                             [prop |-> p,
                              out |-> ReadProperty(p, instance_dict["SECRET_VALUES"])]]
            /\ UNCHANGED <<pc, prop>>
       ELSE /\ pc' = [pc EXCEPT ![t] = IF lockBuild THEN "lock" ELSE "call"]
            /\ prop' = [prop EXCEPT ![t] = p]
            /\ UNCHANGED result
    /\ UNCHANGED <<environ, dotenv, proc, lockBuild, store, changes,
                   instance_dict, lock, fetched, netCalls>>

\* with self.lock: the cache is looked at again once the lock is held
AcquireLock(t) ==
    /\ pc[t] = "lock"
    /\ lock = NoThread
    /\ IF "SECRET_VALUES" \in DOMAIN instance_dict
       THEN /\ result' = [result EXCEPT ![t] =
                             [prop |-> prop[t],
                              out |-> ReadProperty(prop[t],
                                                   instance_dict["SECRET_VALUES"])]]
            /\ pc' = [pc EXCEPT ![t] = "idle"]
            /\ prop' = [prop EXCEPT ![t] = ""]
            /\ UNCHANGED lock
       ELSE /\ lock' = t
            /\ pc' = [pc EXCEPT ![t] = "call"]
            /\ UNCHANGED <<result, prop>>
    /\ UNCHANGED <<environ, dotenv, proc, lockBuild, store, changes,
                   instance_dict, fetched, netCalls>>

\* SECRET_VALUES' body: get_secret_values("lumaya-backend-env", "eu-central-2")
\* makes the network call and builds the schema from the answer
CallRemote(t) ==
    /\ pc[t] = "call"
    /\ netCalls' = netCalls + 1
    /\ fetched' = [fetched EXCEPT ![t] = get_secret_values(SECRET_NAME, store)]
    /\ pc' = [pc EXCEPT ![t] = "store"]
    /\ UNCHANGED <<environ, dotenv, proc, lockBuild, store, changes,
                   instance_dict, lock, prop, result>>

\* cache[self.attrname] = val, the lock is released, and the property computes
\* its value from val; had get_secret_values raised, nothing would be cached
StoreResult(t) ==
    /\ pc[t] = "store"
    /\ IF fetched[t].t = "return"
       THEN /\ instance_dict' = [a \in {"SECRET_VALUES"} |-> fetched[t].v]
            /\ result' = [result EXCEPT ![t] =
                             [prop |-> prop[t],
                              out |-> ReadProperty(prop[t], fetched[t].v)]]
       ELSE /\ result' = [result EXCEPT ![t] = [prop |-> prop[t], out |-> fetched[t]]]
            /\ UNCHANGED instance_dict
    /\ lock' = IF lock = t THEN NoThread ELSE lock
    /\ pc' = [pc EXCEPT ![t] = "idle"]
    /\ prop' = [prop EXCEPT ![t] = ""]
    /\ fetched' = [fetched EXCEPT ![t] = NoResult]
    /\ UNCHANGED <<environ, dotenv, proc, lockBuild, store, changes, netCalls>>

\* the environment: the secret is edited, deleted or restored in the store
ChangeStore(responses) ==
    /\ changes < MaxStoreChanges
    /\ store' \in responses \ {store}
    /\ changes' = changes + 1
    /\ UNCHANGED <<environ, dotenv, proc, lockBuild, instance_dict, lock, pc,
                   prop, fetched, result, netCalls>>

\* concurrent readers, a store that changes
Init ==
    InitWith(FewResponses, SUBSET RequiredCredentials, SUBSET RequiredCredentials)

Next ==
    \/ ImportModule
    \/ \E t \in Threads, p \in FewProperties : BeginRead(t, p)
    \/ \E t \in Threads : AcquireLock(t)
    \/ \E t \in Threads : CallRemote(t)
    \/ \E t \in Threads : StoreResult(t)
    \/ ChangeStore(FewResponses)

Spec == Init /\ [][Next]_vars

\* one reader with the credentials in its environment, every property, every
\* answer of the store
MainThread == 1

InitFetch == InitWith(AllResponses, {RequiredCredentials}, {{}})

NextFetch ==
    \/ ImportModule
    \/ \E p \in Properties : BeginRead(MainThread, p)
    \/ AcquireLock(MainThread)
    \/ CallRemote(MainThread)
    \/ StoreResult(MainThread)

SpecFetch == InitFetch /\ [][NextFetch]_vars

-----------------------------------------------------------------------------
(* What the claims speak of *)

Cached == "SECRET_VALUES" \in DOMAIN instance_dict

\* the cached Secret Schema
Schema == instance_dict["SECRET_VALUES"]

\* a read by thread t has completed
HasRead(t) == "prop" \in DOMAIN result[t]

\* a schema field holds a non-empty string
PresentNonEmpty(x) == x.t = "str" /\ x.v # <<>>

HttpsFlags == {"FRONTEND_IS_HTTPS", "BACKEND_IS_HTTPS"}

StringProperties == Properties \ (HttpsFlags \cup {"SMTP_PORT", "DATABASE_URL"})

\* the documented literal default of each string property
DocumentedDefault ==
    [p \in StringProperties |->
        CASE p = "ENVIRONMENT" -> <<"d", "e", "v", "e", "l", "o", "p", "m",
                "e", "n", "t">>
          [] p = "POSTGRES_SERVER" -> <<"l", "o", "c", "a", "l", "h", "o",
                  "s", "t">>
          [] p = "POSTGRES_PORT" -> <<"5", "4", "3", "2">>
          [] p = "S3_BUCKET_NAME" -> <<"l", "u", "m", "a", "y", "a", "-",
                  "b", "u", "c", "k", "e", "t">>
          [] p = "S3_BUCKET_ARN" -> <<"a", "r", "n", ":", "a", "w", "s", ":",
                  "s", "3", ":", ":", ":", "l", "u", "m", "a", "y", "a", "-",
                  "b", "u", "c", "k", "e", "t", "-", "d", "e", "v">>
          [] p = "VERIFF_CALLBACK_URL" -> <<"h", "t", "t", "p", "s", ":",
                  "/", "/", "l", "u", "m", "a", "y", "a", "-", "w", "e", "b",
                  ".", "h", "a", "s", "h", "l", "o", "g", "i", "c", "s", ".",
                  "c", "o", "m", "/", "e", "n">>
          [] p = "GOOGLE_CLIENT_ID" -> <<"c", "l", "i", "e", "n", "t", " ",
                  "i", "d">>
          [] p = "SKRIBBLE_URL" -> <<"h", "t", "t", "p", "s", ":", "/", "/",
                  "a", "p", "i", ".", "s", "k", "r", "i", "b", "b", "l", "e",
                  ".", "c", "o", "m", "/", "v", "2">>
          [] p = "ADMIN_EMAIL" -> <<"i", "s", "a", "b", "e", "l", "l", "e",
                  "@", "l", "u", "m", "a", "y", "a", ".", "c", "h">>
          [] OTHER -> <<>>]

BackingField ==
    [p \in StringProperties |->
        CASE p = "ENVIRONMENT" -> "PYTHON_ENVIRONMENT"
          [] p = "SMTP_SENDER_EMAIL" -> "SENDER_EMAIL"
          [] p = "SEND_GRID_KEY" -> "SENDGRID_API_KEY"
          [] p = "WELCOME_EN_TEMPLATE_ID" -> "WELCOME_EN_EMAIL_TEMPLATE_ID"
          [] OTHER -> p]

\* a field's value if present and non-empty, else the given default
Resolved(sv, f, default) == IF PresentNonEmpty(sv[f]) THEN sv[f].v ELSE default

\* the connection string written out from the schema and the documented defaults
ConnectionString(sv) ==
    <<"p", "o", "s", "t", "g", "r", "e", "s", "q", "l", ":", "/", "/">>
    \o Resolved(sv, "POSTGRES_USER", <<>>) \o <<":">>
    \o Resolved(sv, "POSTGRES_PASSWORD", <<>>) \o <<"@">>
    \o Resolved(sv, "POSTGRES_SERVER", <<"l", "o", "c", "a", "l", "h", "o", "s", "t">>)
    \o <<":">> \o Resolved(sv, "POSTGRES_PORT", <<"5", "4", "3", "2">>) \o <<"/">>
    \o Resolved(sv, "POSTGRES_DB", <<>>)

\* what each property returns when every field is unset
AllDefaults(p) ==
    CASE p \in HttpsFlags -> PyBool(FALSE)
      [] p = "SMTP_PORT" -> PyInt(587)
      [] p = "DATABASE_URL" ->
            PyStr(<<"p", "o", "s", "t", "g", "r", "e", "s", "q", "l", ":", "/", "/",
                    ":", "@", "l", "o", "c", "a", "l", "h", "o", "s", "t", ":",
                    "5", "4", "3", "2", "/">>)
      [] OTHER -> PyStr(DocumentedDefault[p])

\* the store answered with a JSON object
IsJsonObject(r) ==
    r.kind = "ok" /\ r.SecretString.valid /\ r.SecretString.value.t = "dict"

Payload == store.SecretString.value.v

EmptyObjectResponse == Response(JsonText(PyDict(EmptyDict)))

-----------------------------------------------------------------------------
(* Claims *)

\* C1: however many callers read properties, concurrently or not, the remote
\* fetch is invoked at most once in a process lifetime.
AtMostOneFetch == netCalls <= 1

\* C2: when the remote call fails (ClientError, network error, any other
\* exception) get_secret_values does not raise and returns a schema with
\* every field unset, and every property then returns what it returns for
\* an empty bundle: its default.
FailedFetchGivesDefaults ==
    /\ store \in Failures =>
          /\ pc[MainThread] = "store" => fetched[MainThread] = Return(EmptySchema)
          /\ Cached => \A f \in Fields : Schema[f] = PyNone
    /\ (store \in Failures \cup {EmptyObjectResponse} /\ HasRead(MainThread)) =>
          result[MainThread].out = Return(AllDefaults(result[MainThread].prop))

FailedFetchRead ==
    /\ store = OtherError("EndpointConnectionError")
    /\ HasRead(MainThread)
    /\ result[MainThread].prop = "POSTGRES_SERVER"
    /\ result[MainThread].out = Return(PyStr(<<"l", "o", "c", "a", "l", "h", "o", "s", "t">>))

\* C3: a string property returns its backing field's value when that is
\* present and non-empty, and its documented literal default when the field
\* is absent or the empty string.
StringPropertyOrDefault ==
    (HasRead(MainThread) /\ result[MainThread].prop \in StringProperties) =>
        LET p == result[MainThread].prop
            x == Schema[BackingField[p]]
        IN IF PresentNonEmpty(x)
           THEN result[MainThread].out = Return(PyStr(x.v))
           ELSE result[MainThread].out = Return(PyStr(DocumentedDefault[p]))

EmptyFieldReadsDefault ==
    /\ HasRead(MainThread)
    /\ result[MainThread].prop = "ADMIN_EMAIL"
    /\ Cached
    /\ Schema["ADMIN_EMAIL"] = PyStr(<<>>)
    /\ result[MainThread].out = Return(PyStr(DocumentedDefault["ADMIN_EMAIL"]))

\* C4: end to end from a JSON object payload, an HTTPS flag property is true
\* when the payload gives the flag one of "true", "1", "yes", "on" in any
\* letter case, and false when it gives any other string, null, or no value.
HttpsFlagFromPayload ==
    (IsJsonObject(store) /\ HasRead(MainThread)
        /\ result[MainThread].prop \in HttpsFlags) =>
        LET f == result[MainThread].prop
            saysTrue == /\ f \in DOMAIN Payload
                        /\ Payload[f].t = "str"
                        /\ lower(Payload[f].v) \in TrueWords
        IN (f \notin DOMAIN Payload \/ Payload[f].t \in {"str", "none"}) =>
              result[MainThread].out = Return(PyBool(saysTrue))

\* C5: with a bootstrap credential missing from the environment (process
\* environment and env file), import fails at Settings() and no remote call
\* is ever made: the facade is never constructed and nothing is fetched.
MissingCredentialsNoFetch ==
    ~(RequiredCredentials \subseteq environ \cup dotenv) =>
        /\ proc \in {"importing", "crashed"}
        /\ netCalls = 0
        /\ ~Cached
        /\ \A t \in Threads : pc[t] = "idle" /\ ~HasRead(t)

StartupFailed ==
    /\ proc = "crashed"
    /\ "AWS_SECRET_ACCESS_KEY" \notin environ \cup dotenv
    /\ "AWS_ACCESS_KEY_ID" \in environ

\* C6: DATABASE_URL is "postgresql://" user ":" password "@" server ":" port
\* "/" db over the resolved properties (field value or default), unescaped;
\* for the payload u, p, h, 5432, d it is postgresql://u:p@h:5432/d.
DatabaseUrlFormat ==
    (HasRead(MainThread) /\ result[MainThread].prop = "DATABASE_URL") =>
        /\ result[MainThread].out = Return(PyStr(ConnectionString(Schema)))
        /\ store = Response(JsonText(PyDict(PostgresExample))) =>
              result[MainThread].out =
                  Return(PyStr(<<"p", "o", "s", "t", "g", "r", "e", "s", "q", "l",
                                 ":", "/", "/", "u", ":", "p", "@", "h", ":",
                                 "5", "4", "3", "2", "/", "d">>))

DatabaseUrlExampleRead ==
    /\ store = Response(JsonText(PyDict(PostgresExample)))
    /\ HasRead(MainThread)
    /\ result[MainThread].prop = "DATABASE_URL"
    /\ result[MainThread].out.t = "return"

\* what the claim expects field f of the schema built from JSON object d to be
ExpectedField(d, f) ==
    IF f \notin DOMAIN d THEN PyNone
    ELSE IF f \in HttpsFlags /\ d[f].t = "str"
    THEN PyBool(lower(d[f].v) \in TrueWords)
    ELSE d[f]

ExpectedSchema(d) == [f \in Fields |-> ExpectedField(d, f)]

\* C7 as stated: for every JSON object whose values are strings or booleans,
\* the schema holds each recognized field present at the payload's value (the
\* flags normalized), leaves each absent field unset, and unrecognized keys
\* are dropped without error.
SchemaFromStringOrBooleanObject ==
    (IsJsonObject(store) /\ \A k \in DOMAIN Payload : Payload[k].t \in {"str", "bool"}) =>
        /\ pc[MainThread] = "store" =>
              fetched[MainThread] = Return(ExpectedSchema(Payload))
        /\ Cached => Schema = ExpectedSchema(Payload)

\* the payload gives every recognized field a value of the field's kind: a
\* string to a string field, a string or a boolean to an HTTPS flag
WellTyped(d) ==
    /\ \A k \in DOMAIN d \cap StrFields : d[k].t = "str"
    /\ \A k \in DOMAIN d \cap BoolFields : d[k].t \in {"str", "bool"}

\* C7 amended: the same for every JSON object that gives each recognized
\* string field present a string and each HTTPS flag present a string or a
\* boolean; unrecognized keys may hold anything and are dropped.
SchemaFromWellTypedObject ==
    (IsJsonObject(store) /\ WellTyped(Payload)) =>
        /\ pc[MainThread] = "store" =>
              fetched[MainThread] = Return(ExpectedSchema(Payload))
        /\ Cached => Schema = ExpectedSchema(Payload)

UnknownKeyDropped ==
    /\ IsJsonObject(store)
    /\ "UNKNOWN_KEY" \in DOMAIN Payload
    /\ "POSTGRES_USER" \in DOMAIN Payload
    /\ Cached
    /\ Schema["POSTGRES_USER"] = PyStr(<<"u">>)
    /\ Schema["SMTP_HOST"] = PyNone

\* C8: a payload that is not JSON is recorded whole in the schema field named
\* after the secret name, every other field unset, also for the name the
\* facade uses.
PlainTextRecorded ==
    (store.kind = "ok" /\ ~store.SecretString.valid /\ Cached) =>
        /\ SECRET_NAME \in DOMAIN Schema
        /\ Schema[SECRET_NAME] = PyStr(store.SecretString.text)
        /\ \A f \in DOMAIN Schema \ {SECRET_NAME} : Schema[f] = PyNone

\* a string of decimal digits only
AllDigits(s) == s # <<>> /\ \A i \in 1..Len(s) : s[i] \in DigitChars

\* a string no reading makes an integer: it has no digit, or a character that
\* is no digit, sign, underscore or whitespace
Malformed(s) ==
    \/ \A i \in 1..Len(s) : s[i] \notin DigitChars
    \/ \E i \in 1..Len(s) : s[i] \notin DigitChars \cup Whitespace \cup {"+", "-", "_"}

\* C9: SMTP_PORT is 587 when the field is absent or empty, the field's
\* integer value when it is a decimal string, and a propagated error when
\* the field is non-empty and no integer.
SmtpPortParse ==
    (HasRead(MainThread) /\ result[MainThread].prop = "SMTP_PORT") =>
        LET x == Schema["SMTP_PORT"]
            out == result[MainThread].out
        IN /\ ~PresentNonEmpty(x) => out = Return(PyInt(587))
           /\ (PresentNonEmpty(x) /\ AllDigits(x.v)) =>
                 out = Return(PyInt(DecimalValue(x.v)))
           /\ (PresentNonEmpty(x) /\ Malformed(x.v)) => out.t = "raise"
           /\ x = PyStr(<<"2", "5">>) => out = Return(PyInt(25))

MalformedPortRaises ==
    /\ HasRead(MainThread)
    /\ result[MainThread].prop = "SMTP_PORT"
    /\ Cached
    /\ Schema["SMTP_PORT"] = PyStr(<<"2", "x">>)
    /\ result[MainThread].out = Raise("ValueError")

\* C10: once the first fetch has completed the cached schema never changes,
\* whatever happens to the remote store afterwards.
CacheNeverChanges == [][Cached => instance_dict' = instance_dict]_vars

=============================================================================
